---- MODULE Spec2Model ----
(***************************************************************************)
(* Model of text-charset-detection/detcharset.cpp: the UTF-8 validation    *)
(* scan behind CheckStreamForUTF8NoBOM and the two byte-order-mark checks  *)
(* CheckStreamForUTF8BOM and CheckStreamForUTF16BOM.                        *)
(*                                                                         *)
(* Bytes are the integers 0..255.  Pointers into the sample buffer are     *)
(* 0-based indices: bufferStart is 0 and charBufEndPtr is the index one    *)
(* past the last byte the callee may touch.                                *)
(***************************************************************************)
EXTENDS Integers, Sequences, FiniteSets, TLC

VARIABLES
    stream,          \* the bytes of the file behind the ifstream
    pos,             \* the stream's read position
    eofbit,          \* the stream's eofbit
    failbit,         \* the stream's failbit
    entryPos,        \* the read position when the call was made
    tinyLimit,       \* the threshold readCount is compared with (line 598)
    bDetailed,       \* UTF8_DETAILED_ERROR_LIST
    called,          \* the entry point that was called ("none" before)
    pc,              \* "call", "loop", "exit", "done", "logic_error"
    buf,             \* sampleTextBuffer: allocBufferSize bytes
    readCount,       \* bytes the stream delivered into buf
    bBufferEndCheck, \* template argument of CheckStreamForUTF8NoBOMInternal
    stopPos,         \* stopPos as an index into buf
    ucharPtr,        \* the scan cursor
    bValidUTF8,      \* running verdict: all characters valid so far
    b7bitASCIIOnly,  \* running verdict: all characters ASCII so far
    reason,          \* the diagnostic log, one record per line
    maxRead,         \* highest buffer index read so far (-1: none)
    iterations,      \* completed passes through the while loop
    retval,          \* the value returned by the call
    bLittleEndian,   \* the caller's bLittleEndian variable
    bLeadingByteValid,   \* local of UTF8InvalidLeadingOrContinuation (line 284)
    utf8sequenceLength   \* local of UTF8InvalidLeadingOrContinuation (line 285)

vars == <<stream, pos, eofbit, failbit, entryPos, tinyLimit, bDetailed, called,
          pc, buf, readCount, bBufferEndCheck, stopPos, ucharPtr,
          bValidUTF8, b7bitASCIIOnly, reason, maxRead, iterations, retval,
          bLittleEndian, bLeadingByteValid, utf8sequenceLength>>

(***************************************************************************)
(* Program constants.                                                      *)
(***************************************************************************)
UTF8_MAX_CHAR_SIZE == 4
UTF8_NO_BOM_TEXT_SAMPLE_SIZE == 0
UTF8_TINY_MODE_SIZE_LIMIT == 1000000000
UTF8_SUBCLASSIFY_TOO_LONG_SEQUENCES == TRUE
UTF8_DETAILED_ERROR_LIST == TRUE
SIGNATURE_CHECK_RESULT_FAIL == 0
SIGNATURE_CHECK_RESULT_NOT_FOUND == 1
SIGNATURE_CHECK_RESULT_FOUND == 2
UTF8BOM == <<239, 187, 191>>        \* EF BB BF
UTF16LE_BOM == <<255, 254>>         \* FF FE
UTF16BE_BOM == <<254, 255>>         \* FE FF

Max(a, b) == IF a >= b THEN a ELSE b
Min(a, b) == IF a <= b THEN a ELSE b

(***************************************************************************)
(* ucharPtr[i] for the buffer b and cursor p.  A read at or past the end   *)
(* of the allocation yields the arbitrary byte oob.                        *)
(***************************************************************************)
At(b, p, i, oob) == IF p + i < Len(b) THEN b[p + i + 1] ELSE oob

(***************************************************************************)
(* Byte classifiers (lines 41-175).  Each takes the bytes it may look at;  *)
(* the Touched operators give the highest offset the C++ expression        *)
(* actually evaluates under && / || short-circuiting.                      *)
(***************************************************************************)
\* faulty variant: DEL (0x7F) passes the 1-byte test
UTF8CharASCII7WithDel(b0) ==
    \/ b0 = 9 \/ b0 = 10 \/ b0 = 13
    \/ (32 <= b0 /\ b0 <= 127)

UTF8CharASCII7(b0) ==
    b0 = 9 \/ b0 = 10 \/ b0 = 13 \/ (32 <= b0 /\ b0 <= 126)

UTF8InvalidControlChar(b0) ==
    (b0 \div 128 = 0) /\ ~UTF8CharASCII7(b0)

UTF8CharValid2Bytes(b0, b1) ==
    (194 <= b0 /\ b0 <= 223) /\ (128 <= b1 /\ b1 <= 191)

TouchedValid2Bytes(b0) ==
    IF 194 <= b0 /\ b0 <= 223 THEN 1 ELSE 0

UTF8Invalid2BytesOverlong(b0) ==
    192 <= b0 /\ b0 <= 193

\* faulty variant: the ED branch lets byte 2 range over 0x80..0xBF (surrogates pass)
UTF8CharValid3BytesWithSurrogates(b0, b1, b2) ==
    \/ /\ ((225 <= b0 /\ b0 <= 236) \/ b0 = 238 \/ b0 = 239)
       /\ (128 <= b1 /\ b1 <= 191)
       /\ (128 <= b2 /\ b2 <= 191)
    \/ /\ b0 = 224
       /\ (160 <= b1 /\ b1 <= 191)
       /\ (128 <= b2 /\ b2 <= 191)
    \/ /\ b0 = 237
       /\ (128 <= b1 /\ b1 <= 191)
       /\ (128 <= b2 /\ b2 <= 191)

UTF8CharValid3Bytes(b0, b1, b2) ==
    \/ /\ ((225 <= b0 /\ b0 <= 236) \/ b0 = 238 \/ b0 = 239)
       /\ (128 <= b1 /\ b1 <= 191)
       /\ (128 <= b2 /\ b2 <= 191)
    \/ /\ b0 = 224
       /\ (160 <= b1 /\ b1 <= 191)
       /\ (128 <= b2 /\ b2 <= 191)
    \/ /\ b0 = 237
       /\ (128 <= b1 /\ b1 <= 159)
       /\ (128 <= b2 /\ b2 <= 191)

TouchedValid3Bytes(b0, b1) ==
    IF (225 <= b0 /\ b0 <= 236) \/ b0 = 238 \/ b0 = 239
    THEN (IF 128 <= b1 /\ b1 <= 191 THEN 2 ELSE 1)
    ELSE IF b0 = 224 THEN (IF 160 <= b1 /\ b1 <= 191 THEN 2 ELSE 1)
    ELSE IF b0 = 237 THEN (IF 128 <= b1 /\ b1 <= 159 THEN 2 ELSE 1)
    ELSE 0

UTF8Invalid3BytesOverlong(b0, b1) ==
    b0 = 224 /\ (128 <= b1 /\ b1 <= 159)

\* faulty variant: the surrogate test takes the byte-2 range of the valid ED branch
UTF8Invalid3BytesSurrogateHalfLowRange(b0, b1) ==
    b0 = 237 /\ (128 <= b1 /\ b1 <= 159)

UTF8Invalid3BytesSurrogateHalf(b0, b1) ==
    b0 = 237 /\ (160 <= b1 /\ b1 <= 191)

\* faulty variant: the F0 branch takes the lower bound of the E0 branch (0xA0)
UTF8CharValid4BytesF0FromA0(b0, b1, b2, b3) ==
    \/ /\ b0 = 240
       /\ (160 <= b1 /\ b1 <= 191)
       /\ (128 <= b2 /\ b2 <= 191)
       /\ (128 <= b3 /\ b3 <= 191)
    \/ /\ (241 <= b0 /\ b0 <= 243)
       /\ (128 <= b1 /\ b1 <= 191)
       /\ (128 <= b2 /\ b2 <= 191)
       /\ (128 <= b3 /\ b3 <= 191)
    \/ /\ b0 = 244
       /\ (128 <= b1 /\ b1 <= 143)
       /\ (128 <= b2 /\ b2 <= 191)
       /\ (128 <= b3 /\ b3 <= 191)

UTF8CharValid4Bytes(b0, b1, b2, b3) ==
    \/ /\ b0 = 240
       /\ (144 <= b1 /\ b1 <= 191)
       /\ (128 <= b2 /\ b2 <= 191)
       /\ (128 <= b3 /\ b3 <= 191)
    \/ /\ (241 <= b0 /\ b0 <= 243)
       /\ (128 <= b1 /\ b1 <= 191)
       /\ (128 <= b2 /\ b2 <= 191)
       /\ (128 <= b3 /\ b3 <= 191)
    \/ /\ b0 = 244
       /\ (128 <= b1 /\ b1 <= 143)
       /\ (128 <= b2 /\ b2 <= 191)
       /\ (128 <= b3 /\ b3 <= 191)

TouchedValid4Bytes(b0, b1, b2) ==
    LET second == IF b0 = 240 THEN 144 <= b1 /\ b1 <= 191
                  ELSE IF 241 <= b0 /\ b0 <= 243 THEN 128 <= b1 /\ b1 <= 191
                  ELSE 128 <= b1 /\ b1 <= 143
    IN  IF ~(240 <= b0 /\ b0 <= 244) THEN 0
        ELSE IF ~second THEN 1
        ELSE IF ~(128 <= b2 /\ b2 <= 191) THEN 2
        ELSE 3

\* line 146 tests byte 2 against 0x80..0xBF
UTF8Invalid4BytesOverlong(b0, b1) ==
    b0 = 240 /\ (128 <= b1 /\ b1 <= 191)

\* line 154 reads (0x90 <= ucharPtr[1] && 0xBF <= ucharPtr[1])
UTF8InvalidCodePoint4BytesF4(b0, b1) ==
    b0 = 244 /\ (144 <= b1 /\ 191 <= b1)

UTF8InvalidCodePoint4BytesNonF4(b0) ==
    245 <= b0 /\ b0 <= 247

\* faulty variant: UTF8_SUBCLASSIFY_TOO_LONG_SEQUENCES is off (lines 184-201 skipped)
UTF8IsValidLeadingByteNoSubclassify(b0) ==
    IF b0 \div 8 = 30
    THEN [bValid |-> TRUE, utf8sequenceLength |-> 4]
    ELSE IF b0 \div 16 = 14
    THEN [bValid |-> TRUE, utf8sequenceLength |-> 3]
    ELSE IF b0 \div 32 = 6
    THEN [bValid |-> TRUE, utf8sequenceLength |-> 2]
    ELSE IF b0 \div 128 = 0
    THEN [bValid |-> TRUE, utf8sequenceLength |-> 1]
    ELSE [bValid |-> FALSE, utf8sequenceLength |-> 1]

(***************************************************************************)
(* Leading-byte decoder (lines 179-234): the shifts are integer divisions. *)
(***************************************************************************)
UTF8IsValidLeadingByte(b0) ==
    IF UTF8_SUBCLASSIFY_TOO_LONG_SEQUENCES /\ b0 \div 4 = 62
    THEN [bValid |-> FALSE, utf8sequenceLength |-> 5]
    ELSE IF UTF8_SUBCLASSIFY_TOO_LONG_SEQUENCES /\ b0 \div 2 = 126
    THEN [bValid |-> FALSE, utf8sequenceLength |-> 6]
    ELSE IF UTF8_SUBCLASSIFY_TOO_LONG_SEQUENCES /\ b0 \div 2 = 127
    THEN [bValid |-> FALSE, utf8sequenceLength |-> 1]
    ELSE IF b0 \div 8 = 30
    THEN [bValid |-> TRUE, utf8sequenceLength |-> 4]
    ELSE IF b0 \div 16 = 14
    THEN [bValid |-> TRUE, utf8sequenceLength |-> 3]
    ELSE IF b0 \div 32 = 6
    THEN [bValid |-> TRUE, utf8sequenceLength |-> 2]
    ELSE IF b0 \div 128 = 0
    THEN [bValid |-> TRUE, utf8sequenceLength |-> 1]
    ELSE [bValid |-> FALSE, utf8sequenceLength |-> 1]

UTF8IsContinuationByte(b0) ==
    b0 \div 64 = 2

(***************************************************************************)
(* One line appended to the reason string: its category, the position it   *)
(* prints (-1 when the line prints none), the number of buffer bytes it *)
(* dumps and whether it ends with the <end-of-buffer> marker.              *)
(***************************************************************************)
Line(cat, at, len, eob) == [cat |-> cat, pos |-> at, len |-> len, eob |-> eob]

(***************************************************************************)
(* Continuation verifier (lines 251-276).  k = requiredContinuationBytes,  *)
(* r = bufferRemains.  whereToContinueChecking is -1 while it is still the *)
(* caller's nullptr.  touched is the highest offset read.                  *)
(***************************************************************************)
\* faulty variant: on a mismatch the resume position is &ucharPtr[idx - 1]
UTF8InvalidNrOfContinuationBytesResumeBefore(b, p, k, r, oob) ==
    LET bTruncated == k + 1 > r
        checkUntil == IF bTruncated THEN r ELSE k + 1
        bad        == {idx \in 1..(checkUntil - 1) :
                          ~UTF8IsContinuationByte(At(b, p, idx, oob))}
        first      == CHOOSE i \in bad : \A j \in bad : i <= j
    IN  [bTruncated     |-> bTruncated,
         bMismatchFound |-> bad # {},
         whereToContinueChecking |->
             IF bad # {} THEN p + first - 1
             ELSE IF bTruncated THEN p + r
             ELSE -1,
         touched |-> IF bad # {} THEN first ELSE Max(0, checkUntil - 1)]

\* faulty variant: checkUntil is not clamped to bufferRemains on truncation
UTF8InvalidNrOfContinuationBytesUnclamped(b, p, k, r, oob) ==
    LET bTruncated == k + 1 > r
        checkUntil == k + 1
        bad        == {idx \in 1..(checkUntil - 1) :
                          ~UTF8IsContinuationByte(At(b, p, idx, oob))}
        first      == CHOOSE i \in bad : \A j \in bad : i <= j
    IN  [bTruncated     |-> bTruncated,
         bMismatchFound |-> bad # {},
         whereToContinueChecking |->
             IF bad # {} THEN p + first
             ELSE IF bTruncated THEN p + r
             ELSE -1,
         touched |-> IF bad # {} THEN first ELSE Max(0, checkUntil - 1)]

\* faulty variant: on truncation the loop does not overwrite the resume position
UTF8InvalidNrOfContinuationBytesTruncationWins(b, p, k, r, oob) ==
    LET bTruncated == k + 1 > r
        checkUntil == IF bTruncated THEN r ELSE k + 1
        bad        == {idx \in 1..(checkUntil - 1) :
                          ~UTF8IsContinuationByte(At(b, p, idx, oob))}
        first      == CHOOSE i \in bad : \A j \in bad : i <= j
    IN  [bTruncated     |-> bTruncated,
         bMismatchFound |-> bad # {},
         whereToContinueChecking |->
             IF bTruncated THEN p + r
             ELSE IF bad # {} THEN p + first
             ELSE -1,
         touched |-> IF bad # {} THEN first ELSE Max(0, checkUntil - 1)]

UTF8InvalidNrOfContinuationBytes(b, p, k, r, oob) ==
    LET bTruncated == k + 1 > r
        checkUntil == IF bTruncated THEN r ELSE k + 1
        bad        == {idx \in 1..(checkUntil - 1) :
                          ~UTF8IsContinuationByte(At(b, p, idx, oob))}
        first      == CHOOSE i \in bad : \A j \in bad : i <= j
    IN  [bTruncated     |-> bTruncated,
         bMismatchFound |-> bad # {},
         whereToContinueChecking |->
             IF bad # {} THEN p + first
             ELSE IF bTruncated THEN p + r
             ELSE -1,
         touched |-> IF bad # {} THEN first ELSE Max(0, checkUntil - 1)]

(***************************************************************************)
(* Lines 280-321.  hit is the returned bool, next the updated ucharPtr.    *)
(***************************************************************************)
UTF8InvalidLeadingOrContinuation(b, p, charBufEndPtr, oob) ==
    LET lead == UTF8IsValidLeadingByte(At(b, p, 0, oob))
        len  == lead.utf8sequenceLength
        room == charBufEndPtr - p
        bytesToRead == IF len > room THEN room ELSE len
        cv   == UTF8InvalidNrOfContinuationBytes(b, p, len - 1, room, oob)
    IN  IF ~lead.bValid
        THEN [hit |-> TRUE, next |-> p + bytesToRead,
              touched |-> Max(0, bytesToRead - 1),
              line |-> Line("invalid leading byte", p, bytesToRead, len > room)]
        ELSE IF cv.bTruncated
        THEN [hit |-> TRUE, next |-> cv.whereToContinueChecking,
              touched |-> Max(cv.touched, room - 1),
              line |-> Line("continuation truncated", p, room, TRUE)]
        ELSE IF cv.bMismatchFound
        THEN [hit |-> TRUE, next |-> cv.whereToContinueChecking,
              touched |-> Max(cv.touched, len - 1),
              line |-> Line("continuation mismatch", p, len, FALSE)]
        ELSE [hit |-> FALSE, next |-> p, touched |-> cv.touched,
              line |-> Line("none", p, 0, FALSE)]

(***************************************************************************)
(* UTF8CharValidate<bBufferEndCheck> (lines 324-393).  The first branch    *)
(* (assert(false), line 327) needs ucharPtr > charBufEndPtr - 1, which the *)
(* loop condition of line 489 excludes when bBufferEndCheck is true.       *)
(***************************************************************************)
UTF8CharValidate(b, p, charBufEndPtr, check, oob) ==
    LET b0 == At(b, p, 0, oob)
        b1 == At(b, p, 1, oob)
        b2 == At(b, p, 2, oob)
        b3 == At(b, p, 3, oob)
        t2 == TouchedValid2Bytes(b0)
        t3 == Max(t2, TouchedValid3Bytes(b0, b1))
        t4 == Max(t3, TouchedValid4Bytes(b0, b1, b2))
        R(valid, ascii, next, touched, lines) ==
            [bThisCharValidUTF8 |-> valid, bThisCharValidASCII7 |-> ascii,
             next |-> next, touched |-> touched, lines |-> lines]
    IN  IF UTF8CharASCII7(b0)
        THEN R(TRUE, TRUE, p + 1, 0, <<>>)
        ELSE IF check /\ p > charBufEndPtr - 2
        THEN R(FALSE, FALSE, p, 0,
               <<Line("no room for 2-byte test", -1, 0, FALSE)>>)
        ELSE IF UTF8CharValid2Bytes(b0, b1)
        THEN R(TRUE, FALSE, p + 2, 1, <<>>)
        ELSE IF check /\ p > charBufEndPtr - 3
        THEN R(FALSE, FALSE, p, t2,
               <<Line("no room for 3-byte test", -1, 0, FALSE)>>)
        ELSE IF UTF8CharValid3Bytes(b0, b1, b2)
        THEN R(TRUE, FALSE, p + 3, 2, <<>>)
        ELSE IF check /\ p > charBufEndPtr - 4
        THEN R(FALSE, FALSE, p, t3,
               <<Line("no room for 4-byte test", -1, 0, FALSE)>>)
        ELSE IF UTF8CharValid4Bytes(b0, b1, b2, b3)
        THEN R(TRUE, FALSE, p + 4, 3, <<>>)
        ELSE R(FALSE, FALSE, p, t4,
               <<Line("invalid sequence", -1, 0, FALSE)>>)

(***************************************************************************)
(* UTF8CheckErrors (lines 396-480): the error classifier.  next is the     *)
(* updated ucharPtr, lines the diagnostic appended (none on the early      *)
(* return of line 398).                                                    *)
(***************************************************************************)
UTF8CheckErrors(b, p, charBufEndPtr, oob) ==
    LET b0   == At(b, p, 0, oob)
        b1   == At(b, p, 1, oob)
        room == charBufEndPtr - p
        loc  == UTF8InvalidLeadingOrContinuation(b, p, charBufEndPtr, oob)
        safeBufDumpSize == IF 16 < room THEN 16 ELSE room
        R(cat, len, eob, next) ==
            [next |-> next, touched |-> Max(loc.touched, len - 1),
             lines |-> <<Line(cat, p, len, eob)>>]
    IN  IF p > charBufEndPtr - 1
        THEN [next |-> p, touched |-> -1, lines |-> <<>>]
        ELSE IF loc.hit
        THEN [next |-> loc.next, touched |-> loc.touched, lines |-> <<loc.line>>]
        ELSE IF UTF8InvalidControlChar(b0)
        THEN R("control char", 1, FALSE, p + 1)
        ELSE IF p > charBufEndPtr - 2
        THEN R("unknown, end of buffer after 1-byte checks", room, TRUE, charBufEndPtr)
        ELSE IF UTF8Invalid2BytesOverlong(b0)
        THEN R("2-byte overlong", 2, FALSE, p + 2)
        ELSE IF p > charBufEndPtr - 3
        THEN R("unknown, end of buffer after 2-byte checks", room, TRUE, charBufEndPtr)
        ELSE IF UTF8Invalid3BytesOverlong(b0, b1)
        THEN R("3-byte overlong", 3, FALSE, p + 3)
        ELSE IF UTF8Invalid3BytesSurrogateHalf(b0, b1)
        THEN R("surrogate half", 3, FALSE, p + 3)
        ELSE IF p > charBufEndPtr - 4
        THEN R("unknown, end of buffer after 3-byte checks", room, TRUE, charBufEndPtr)
        ELSE IF UTF8Invalid4BytesOverlong(b0, b1)
        THEN R("4-byte overlong", 4, FALSE, p + 4)
        ELSE IF UTF8InvalidCodePoint4BytesF4(b0, b1)
        THEN R("code point out of range (F4)", 4, FALSE, p + 4)
        ELSE IF UTF8InvalidCodePoint4BytesNonF4(b0)
        THEN R("code point out of range (non-F4)", 4, FALSE, p + 4)
        ELSE R("unknown", safeBufDumpSize, FALSE, p + 1)

(***************************************************************************)
(* std::ifstream as the code uses it.  s = [pos, eof, fail] is the stream  *)
(* state and size the length of the file; badbit never arises.             *)
(***************************************************************************)
StreamGood(s) == ~s.eof /\ ~s.fail

\* tellg(): the sentry sets failbit on a stream that is not good()
Tellg(s) ==
    IF StreamGood(s) THEN [st |-> s, val |-> s.pos]
    ELSE [st |-> [s EXCEPT !.fail = TRUE], val |-> -1]

\* seekg(target): clears eofbit, then seeks unless fail()
Seekg(s, target, size) ==
    LET s1 == [s EXCEPT !.eof = FALSE]
    IN  IF s1.fail THEN s1
        ELSE IF 0 <= target /\ target <= size THEN [s1 EXCEPT !.pos = target]
        ELSE [s1 EXCEPT !.fail = TRUE]

\* read(dst, n) followed by gcount()
Read(s, n, size) ==
    LET got == Min(n, size - s.pos)
    IN  IF ~StreamGood(s) THEN [st |-> [s EXCEPT !.fail = TRUE], gcount |-> 0]
        ELSE [st |-> [pos |-> s.pos + got, eof |-> got < n, fail |-> got < n],
              gcount |-> got]

\* clear()
Clear(s) == [s EXCEPT !.eof = FALSE, !.fail = FALSE]

Zeros(n) == [i \in 1..n |-> 0]

\* faulty variant: the clear() of line 528 is missing
ReadSampleToBufferWithoutClear(s, content) ==
    LET size  == Len(content)
        t1    == Tellg(s)
        savedStreamPos == t1.val
        s2    == Seekg(t1.st, size, size)
        t3    == Tellg(s2)
        bytesTillEndOfStream == t3.val
        s4    == Seekg(t3.st, savedStreamPos, size)
        alloc == IF UTF8_NO_BOM_TEXT_SAMPLE_SIZE = 0
                    \/ UTF8_NO_BOM_TEXT_SAMPLE_SIZE > bytesTillEndOfStream
                 THEN bytesTillEndOfStream
                 ELSE UTF8_NO_BOM_TEXT_SAMPLE_SIZE
        r     == Read(s4, alloc, size)
        usable == r.gcount
        s7    == Seekg(r.st, savedStreamPos, size)
    IN  [st |-> s7, allocBufferSize |-> alloc, usableBufferSize |-> usable,
         cleared |-> FALSE,
         sampleTextBuffer |->
             SubSeq(content, s4.pos + 1, s4.pos + usable) \o Zeros(alloc - usable)]

(***************************************************************************)
(* ReadSampleToBuffer (lines 502-533).  make_unique value-initialises the  *)
(* allocation, so the bytes the read did not fill are 0.                   *)
(***************************************************************************)
ReadSampleToBuffer(s, content) ==
    LET size  == Len(content)
        t1    == Tellg(s)
        savedStreamPos == t1.val
        s2    == Seekg(t1.st, size, size)
        t3    == Tellg(s2)
        bytesTillEndOfStream == t3.val
        s4    == Seekg(t3.st, savedStreamPos, size)
        alloc == IF UTF8_NO_BOM_TEXT_SAMPLE_SIZE = 0
                    \/ UTF8_NO_BOM_TEXT_SAMPLE_SIZE > bytesTillEndOfStream
                 THEN bytesTillEndOfStream
                 ELSE UTF8_NO_BOM_TEXT_SAMPLE_SIZE
        r     == Read(s4, alloc, size)
        usable == r.gcount
        s6    == IF usable < alloc THEN Clear(r.st) ELSE r.st
        s7    == Seekg(s6, savedStreamPos, size)
    IN  [st |-> s7, allocBufferSize |-> alloc, usableBufferSize |-> usable,
         cleared |-> usable < alloc,
         sampleTextBuffer |->
             SubSeq(content, s4.pos + 1, s4.pos + usable) \o Zeros(alloc - usable)]

(***************************************************************************)
(* The streams the scan is run on: up to MaxPre bytes followed by a window *)
(* of up to UTF8_MAX_CHAR_SIZE bytes.  LeadBytes holds one byte of every   *)
(* class the classifiers and the decoder tell apart: ASCII, control,       *)
(* 80-8F, 90-9F, A0-BE, BF, C0-C1, C2-DF, E0, E1-EC/EE/EF, ED, F0, F1-F3,  *)
(* F4, F5-F7, F8-FB, FC-FD, FE-FF.                                         *)
(***************************************************************************)
MaxPre == 1
LeadBytes == {65, 127, 128, 144, 160, 191, 192, 194, 224, 225, 237,
              240, 241, 244, 245, 248, 252, 254}
SecondBytes == {65, 127, 128, 144, 160, 191, 194, 254}
ThirdBytes == {65, 128, 191}
FourthBytes == {65, 128}
PrefixBytes == {65, 240, 248}
OutOfBounds == {0, 128}

Windows ==
    {<<>>}
    \cup {<<a>> : a \in LeadBytes}
    \cup {<<a, b>> : a \in LeadBytes, b \in SecondBytes}
    \cup {<<a, b, c>> : a \in LeadBytes, b \in SecondBytes, c \in ThirdBytes}
    \cup {<<a, b, c, d>> : a \in LeadBytes, b \in SecondBytes,
                           c \in ThirdBytes, d \in FourthBytes}
Prefixes == UNION {[1..n -> PrefixBytes] : n \in 0..MaxPre}
Streams == {pre \o w : pre \in Prefixes, w \in Windows}

\* the thresholds a sample is compared with: the build's, and the smallest
\* one for which the unchecked scan has a stop position inside the buffer
TinyLimits == {UTF8_MAX_CHAR_SIZE, UTF8_TINY_MODE_SIZE_LIMIT}

Init ==
    /\ stream \in Streams
    /\ pos \in 0..MaxPre
    /\ pos <= Len(stream)
    /\ eofbit = FALSE
    /\ failbit = FALSE
    /\ entryPos = pos
    /\ tinyLimit \in TinyLimits
    /\ bDetailed = UTF8_DETAILED_ERROR_LIST
    /\ called = "none"
    /\ pc = "call"
    /\ buf = <<>>
    /\ readCount = 0
    /\ bBufferEndCheck = TRUE
    /\ stopPos = 0
    /\ ucharPtr = 0
    /\ bValidUTF8 = TRUE
    /\ b7bitASCIIOnly = TRUE
    /\ reason = <<>>
    /\ maxRead = -1
    /\ iterations = 0
    /\ retval = FALSE
    /\ bLittleEndian = FALSE
    /\ bLeadingByteValid = FALSE
    /\ utf8sequenceLength = -1000

(***************************************************************************)
(* CheckStreamForUTF8NoBOM up to the entry of the scan loop: lines 589-607 *)
(* and 485-487.                                                            *)
(***************************************************************************)
CheckStreamForUTF8NoBOMEnter ==
    /\ pc = "call"
    /\ LET rs == ReadSampleToBuffer([pos |-> pos, eof |-> eofbit, fail |-> failbit],
                                    stream)
           unchecked == rs.usableBufferSize >= tinyLimit
       IN  /\ pos' = rs.st.pos
           /\ eofbit' = rs.st.eof
           /\ failbit' = rs.st.fail
           /\ buf' = rs.sampleTextBuffer
           /\ readCount' = rs.usableBufferSize
           /\ bBufferEndCheck' = ~unchecked
           /\ stopPos' = IF unchecked
                         THEN rs.usableBufferSize - UTF8_MAX_CHAR_SIZE
                         ELSE rs.usableBufferSize
           /\ reason' = IF unchecked THEN <<>>
                        ELSE <<Line("shorter than limit", -1, 0, FALSE)>>
    /\ ucharPtr' = 0
    /\ bValidUTF8' = TRUE
    /\ b7bitASCIIOnly' = TRUE
    /\ called' = "CheckStreamForUTF8NoBOM"
    /\ pc' = "loop"
    /\ UNCHANGED <<bLeadingByteValid, utf8sequenceLength>>
    /\ UNCHANGED <<stream, entryPos, tinyLimit, bDetailed, maxRead, iterations,
                   retval, bLittleEndian>>

\* faulty variant: lines 493-494 assign the flags instead of and-ing them
ScanIterationAssigning ==
    /\ pc = "loop"
    /\ ucharPtr < stopPos
    /\ \E oob \in OutOfBounds :
         LET v   == UTF8CharValidate(buf, ucharPtr, stopPos, bBufferEndCheck, oob)
             nowValid == bValidUTF8 /\ v.bThisCharValidUTF8
             brk == ~nowValid /\ ~bDetailed
             classify == ~brk /\ ~v.bThisCharValidUTF8
             e   == UTF8CheckErrors(buf, v.next, stopPos, oob)
         IN  /\ bValidUTF8' = v.bThisCharValidUTF8
             /\ b7bitASCIIOnly' = v.bThisCharValidASCII7
             /\ ucharPtr' = IF classify THEN e.next ELSE v.next
             /\ reason' = reason \o v.lines \o (IF classify THEN e.lines ELSE <<>>)
             /\ maxRead' = Max(Max(maxRead, ucharPtr + v.touched),
                               IF classify THEN v.next + e.touched ELSE -1)
             /\ pc' = IF brk THEN "exit" ELSE "loop"
    /\ iterations' = iterations + 1
    /\ UNCHANGED <<bLeadingByteValid, utf8sequenceLength>>
    /\ UNCHANGED <<stream, pos, eofbit, failbit, entryPos, tinyLimit, bDetailed,
                   called, buf, readCount, bBufferEndCheck, stopPos, retval,
                   bLittleEndian>>

(***************************************************************************)
(* One pass through the while loop of CheckStreamForUTF8NoBOMInternal      *)
(* (lines 489-499): UTF8CharValidate, the two &=, the break of fast mode,  *)
(* and UTF8CheckErrors when the character was not valid.                   *)
(***************************************************************************)
ScanIteration ==
    /\ pc = "loop"
    /\ ucharPtr < stopPos
    /\ \E oob \in OutOfBounds :
         LET v   == UTF8CharValidate(buf, ucharPtr, stopPos, bBufferEndCheck, oob)
             nowValid == bValidUTF8 /\ v.bThisCharValidUTF8
             brk == ~nowValid /\ ~bDetailed
             classify == ~brk /\ ~v.bThisCharValidUTF8
             e   == UTF8CheckErrors(buf, v.next, stopPos, oob)
         IN  /\ bValidUTF8' = nowValid
             /\ b7bitASCIIOnly' = (b7bitASCIIOnly /\ v.bThisCharValidASCII7)
             /\ ucharPtr' = IF classify THEN e.next ELSE v.next
             /\ reason' = reason \o v.lines \o (IF classify THEN e.lines ELSE <<>>)
             /\ maxRead' = Max(Max(maxRead, ucharPtr + v.touched),
                               IF classify THEN v.next + e.touched ELSE -1)
             /\ pc' = IF brk THEN "exit" ELSE "loop"
    /\ iterations' = iterations + 1
    /\ UNCHANGED <<bLeadingByteValid, utf8sequenceLength>>
    /\ UNCHANGED <<stream, pos, eofbit, failbit, entryPos, tinyLimit, bDetailed,
                   called, buf, readCount, bBufferEndCheck, stopPos, retval,
                   bLittleEndian>>

\* faulty variant: the ASCII-only test of line 615 is missing
NoBOMReturnValueWithoutAsciiTest(ascii, valid) == valid

\* the value CheckStreamForUTF8NoBOM returns (lines 615-621)
NoBOMReturnValue(ascii, valid) == IF ascii THEN FALSE ELSE valid

(***************************************************************************)
(* The rest of CheckStreamForUTF8NoBOM once the loop is left               *)
(* (lines 609-621).                                                        *)
(***************************************************************************)
CheckStreamForUTF8NoBOMReturn ==
    /\ \/ pc = "loop" /\ ~(ucharPtr < stopPos)
       \/ pc = "exit"
    /\ reason' = reason
         \o (IF b7bitASCIIOnly THEN <<Line("ASCII 7-bit text", -1, 0, FALSE)>>
             ELSE <<>>)
         \o (IF bValidUTF8 THEN <<Line("only valid UTF-8", -1, 0, FALSE)>>
             ELSE <<>>)
    /\ retval' = NoBOMReturnValue(b7bitASCIIOnly, bValidUTF8)
    /\ pc' = "done"
    /\ UNCHANGED <<bLeadingByteValid, utf8sequenceLength>>
    /\ UNCHANGED <<stream, pos, eofbit, failbit, entryPos, tinyLimit, bDetailed,
                   called, buf, readCount, bBufferEndCheck, stopPos, ucharPtr,
                   bValidUTF8, b7bitASCIIOnly, maxRead, iterations,
                   bLittleEndian>>

Next ==
    \/ CheckStreamForUTF8NoBOMEnter
    \/ ScanIteration
    \/ CheckStreamForUTF8NoBOMReturn

Spec == Init /\ [][Next]_vars

(***************************************************************************)
(* CheckStreamForUTF8NoBOMInternal<bBufferEndCheck> (lines 482-500) as a   *)
(* function of the buffer: the loop is run from cursor p with the running  *)
(* flags valid and ascii, under either setting of                          *)
(* UTF8_DETAILED_ERROR_LIST, and the final flags and cursor are returned.  *)
(***************************************************************************)
\* faulty variant: the break of lines 495-496 comes before the &= of line 494
RECURSIVE CheckStreamForUTF8NoBOMInternalEarlyBreak(_, _, _, _, _, _, _, _)
CheckStreamForUTF8NoBOMInternalEarlyBreak(b, p, stop, check, detailed, valid, ascii, oob) ==
    IF ~(p < stop)
    THEN [bValidUTF8 |-> valid, b7bitASCIIOnly |-> ascii, ucharPtr |-> p]
    ELSE LET v == UTF8CharValidate(b, p, stop, check, oob)
             nowValid == valid /\ v.bThisCharValidUTF8
             nowAscii == ascii /\ v.bThisCharValidASCII7
             e == UTF8CheckErrors(b, v.next, stop, oob)
         IN  IF ~nowValid /\ ~detailed
             THEN [bValidUTF8 |-> nowValid, b7bitASCIIOnly |-> ascii,
                   ucharPtr |-> v.next]
             ELSE CheckStreamForUTF8NoBOMInternalEarlyBreak(
                      b, IF v.bThisCharValidUTF8 THEN v.next ELSE e.next,
                      stop, check, detailed, nowValid, nowAscii, oob)

RECURSIVE CheckStreamForUTF8NoBOMInternal(_, _, _, _, _, _, _, _)
CheckStreamForUTF8NoBOMInternal(b, p, stop, check, detailed, valid, ascii, oob) ==
    IF ~(p < stop)
    THEN [bValidUTF8 |-> valid, b7bitASCIIOnly |-> ascii, ucharPtr |-> p]
    ELSE LET v == UTF8CharValidate(b, p, stop, check, oob)
             nowValid == valid /\ v.bThisCharValidUTF8
             nowAscii == ascii /\ v.bThisCharValidASCII7
             e == UTF8CheckErrors(b, v.next, stop, oob)
         IN  IF ~nowValid /\ ~detailed
             THEN [bValidUTF8 |-> nowValid, b7bitASCIIOnly |-> nowAscii,
                   ucharPtr |-> v.next]
             ELSE CheckStreamForUTF8NoBOMInternal(
                      b, IF v.bThisCharValidUTF8 THEN v.next ELSE e.next,
                      stop, check, detailed, nowValid, nowAscii, oob)

(***************************************************************************)
(* The scan under either setting of UTF8_DETAILED_ERROR_LIST (line 13):    *)
(* the build has true; false is the fast mode of lines 495-496.  The       *)
(* stream is read from its start, so every stream is a sample.             *)
(***************************************************************************)
InitModes ==
    /\ stream \in Streams
    /\ pos = 0
    /\ eofbit = FALSE
    /\ failbit = FALSE
    /\ entryPos = pos
    /\ tinyLimit \in TinyLimits
    /\ bDetailed \in BOOLEAN
    /\ called = "none"
    /\ pc = "call"
    /\ buf = <<>>
    /\ readCount = 0
    /\ bBufferEndCheck = TRUE
    /\ stopPos = 0
    /\ ucharPtr = 0
    /\ bValidUTF8 = TRUE
    /\ b7bitASCIIOnly = TRUE
    /\ reason = <<>>
    /\ maxRead = -1
    /\ iterations = 0
    /\ retval = FALSE
    /\ bLittleEndian = FALSE
    /\ bLeadingByteValid = FALSE
    /\ utf8sequenceLength = -1000

SpecModes == InitModes /\ [][Next]_vars

\* faulty variant: a short read rewinds without the clear() of line 563
CheckStreamForSignatureWithoutClear(s, content, signature) ==
    LET N    == Len(signature)
        size == Len(content)
        t    == Tellg(s)
        savedStreamPos == t.val
        r    == Read(t.st, N, size)
        readBuf == SubSeq(content, savedStreamPos + 1, savedStreamPos + r.gcount)
        differs == \E idx \in 1..N : readBuf[idx] # signature[idx]
    IN  IF s.fail
        THEN [st |-> s, result |-> SIGNATURE_CHECK_RESULT_FAIL,
              lines |-> <<Line("stream.fail()", -1, 0, FALSE)>>]
        ELSE IF s.eof
        THEN [st |-> s, result |-> SIGNATURE_CHECK_RESULT_FAIL,
              lines |-> <<Line("stream empty", -1, 0, FALSE)>>]
        ELSE IF r.gcount < N
        THEN [st |-> Seekg(r.st, savedStreamPos, size),
              result |-> SIGNATURE_CHECK_RESULT_NOT_FOUND, lines |-> <<>>]
        ELSE IF differs
        THEN [st |-> Seekg(IF r.st.fail THEN Clear(r.st) ELSE r.st,
                           savedStreamPos, size),
              result |-> SIGNATURE_CHECK_RESULT_NOT_FOUND, lines |-> <<>>]
        ELSE [st |-> r.st, result |-> SIGNATURE_CHECK_RESULT_FOUND,
              lines |-> <<>>]

\* faulty variant: a differing byte returns without the seekg of line 576
CheckStreamForSignatureNoRewindOnMismatch(s, content, signature) ==
    LET N    == Len(signature)
        size == Len(content)
        t    == Tellg(s)
        savedStreamPos == t.val
        r    == Read(t.st, N, size)
        readBuf == SubSeq(content, savedStreamPos + 1, savedStreamPos + r.gcount)
        differs == \E idx \in 1..N : readBuf[idx] # signature[idx]
    IN  IF s.fail
        THEN [st |-> s, result |-> SIGNATURE_CHECK_RESULT_FAIL,
              lines |-> <<Line("stream.fail()", -1, 0, FALSE)>>]
        ELSE IF s.eof
        THEN [st |-> s, result |-> SIGNATURE_CHECK_RESULT_FAIL,
              lines |-> <<Line("stream empty", -1, 0, FALSE)>>]
        ELSE IF r.gcount < N
        THEN [st |-> Seekg(Clear(r.st), savedStreamPos, size),
              result |-> SIGNATURE_CHECK_RESULT_NOT_FOUND, lines |-> <<>>]
        ELSE IF differs
        THEN [st |-> IF r.st.fail THEN Clear(r.st) ELSE r.st,
              result |-> SIGNATURE_CHECK_RESULT_NOT_FOUND, lines |-> <<>>]
        ELSE [st |-> r.st, result |-> SIGNATURE_CHECK_RESULT_FOUND,
              lines |-> <<>>]

(***************************************************************************)
(* CheckStreamForSignature<N> (lines 538-583).                             *)
(***************************************************************************)
CheckStreamForSignature(s, content, signature) ==
    LET N    == Len(signature)
        size == Len(content)
        t    == Tellg(s)
        savedStreamPos == t.val
        r    == Read(t.st, N, size)
        readBuf == SubSeq(content, savedStreamPos + 1, savedStreamPos + r.gcount)
        differs == \E idx \in 1..N : readBuf[idx] # signature[idx]
    IN  IF s.fail
        THEN [st |-> s, result |-> SIGNATURE_CHECK_RESULT_FAIL,
              lines |-> <<Line("stream.fail()", -1, 0, FALSE)>>]
        ELSE IF s.eof
        THEN [st |-> s, result |-> SIGNATURE_CHECK_RESULT_FAIL,
              lines |-> <<Line("stream empty", -1, 0, FALSE)>>]
        ELSE IF r.gcount < N
        THEN [st |-> Seekg(Clear(r.st), savedStreamPos, size),
              result |-> SIGNATURE_CHECK_RESULT_NOT_FOUND, lines |-> <<>>]
        ELSE IF differs
        THEN [st |-> Seekg(IF r.st.fail THEN Clear(r.st) ELSE r.st,
                           savedStreamPos, size),
              result |-> SIGNATURE_CHECK_RESULT_NOT_FOUND, lines |-> <<>>]
        ELSE [st |-> r.st, result |-> SIGNATURE_CHECK_RESULT_FOUND,
              lines |-> <<>>]

(***************************************************************************)
(* The streams the signature checks are run on, read from offset 0 as the  *)
(* asserts of lines 627 and 650 require.                                   *)
(***************************************************************************)
MaxSigLen == 4
SigBytes == {0, 187, 191, 239, 254, 255}
SigStreams == UNION {[1..n -> SigBytes] : n \in 0..MaxSigLen}

InitBOM ==
    /\ stream \in SigStreams
    /\ pos = 0
    /\ eofbit = FALSE
    /\ failbit = FALSE
    /\ entryPos = 0
    /\ tinyLimit = UTF8_TINY_MODE_SIZE_LIMIT
    /\ bDetailed = UTF8_DETAILED_ERROR_LIST
    /\ called = "none"
    /\ pc = "call"
    /\ buf = <<>>
    /\ readCount = 0
    /\ bBufferEndCheck = TRUE
    /\ stopPos = 0
    /\ ucharPtr = 0
    /\ bValidUTF8 = TRUE
    /\ b7bitASCIIOnly = TRUE
    /\ reason = <<>>
    /\ maxRead = -1
    /\ iterations = 0
    /\ retval = FALSE
    /\ bLittleEndian \in BOOLEAN     \* whatever the caller's variable holds
    /\ bLeadingByteValid = FALSE
    /\ utf8sequenceLength = -1000

(***************************************************************************)
(* CheckStreamForUTF8BOM (lines 625-645).                                  *)
(***************************************************************************)
CheckStreamForUTF8BOM ==
    /\ pc = "call"
    /\ Tellg([pos |-> pos, eof |-> eofbit, fail |-> failbit]).val = 0
    /\ LET c == CheckStreamForSignature(
                    [pos |-> pos, eof |-> eofbit, fail |-> failbit], stream, UTF8BOM)
       IN  /\ pos' = c.st.pos
           /\ eofbit' = c.st.eof
           /\ failbit' = c.st.fail
           /\ reason' = reason \o c.lines \o
                CASE c.result = SIGNATURE_CHECK_RESULT_FAIL -> <<>>
                  [] c.result = SIGNATURE_CHECK_RESULT_NOT_FOUND ->
                        <<Line("No UTF-8 BOM found", -1, 0, FALSE)>>
                  [] c.result = SIGNATURE_CHECK_RESULT_FOUND ->
                        <<Line("UTF-8 BOM found", -1, 0, FALSE)>>
                  [] OTHER -> <<>>
           /\ retval' = (c.result = SIGNATURE_CHECK_RESULT_FOUND)
           /\ pc' = IF c.result \in {SIGNATURE_CHECK_RESULT_FAIL,
                                     SIGNATURE_CHECK_RESULT_NOT_FOUND,
                                     SIGNATURE_CHECK_RESULT_FOUND}
                    THEN "done" ELSE "logic_error"
    /\ called' = "CheckStreamForUTF8BOM"
    /\ UNCHANGED <<bLeadingByteValid, utf8sequenceLength>>
    /\ UNCHANGED <<stream, entryPos, tinyLimit, bDetailed, buf, readCount,
                   bBufferEndCheck, stopPos, ucharPtr, bValidUTF8,
                   b7bitASCIIOnly, maxRead, iterations, bLittleEndian>>

(***************************************************************************)
(* CheckStreamForUTF16BOM (lines 648-685).  bLittleEndian is assigned only *)
(* on the two paths that return true.                                      *)
(***************************************************************************)
CheckStreamForUTF16BOM ==
    /\ pc = "call"
    /\ Tellg([pos |-> pos, eof |-> eofbit, fail |-> failbit]).val = 0
    /\ LET le == CheckStreamForSignature(
                    [pos |-> pos, eof |-> eofbit, fail |-> failbit], stream,
                    UTF16LE_BOM)
           be == CheckStreamForSignature(le.st, stream, UTF16BE_BOM)
           tryBE == le.result = SIGNATURE_CHECK_RESULT_NOT_FOUND
           last  == IF tryBE THEN be ELSE le
           known == {SIGNATURE_CHECK_RESULT_FAIL, SIGNATURE_CHECK_RESULT_NOT_FOUND,
                     SIGNATURE_CHECK_RESULT_FOUND}
       IN  /\ pos' = last.st.pos
           /\ eofbit' = last.st.eof
           /\ failbit' = last.st.fail
           /\ reason' = reason \o le.lines
                \o (IF tryBE THEN be.lines ELSE <<>>)
                \o CASE le.result = SIGNATURE_CHECK_RESULT_FOUND ->
                          <<Line("UTF-16 LE BOM found", -1, 0, FALSE)>>
                     [] tryBE /\ be.result = SIGNATURE_CHECK_RESULT_FOUND ->
                          <<Line("UTF-16 BE BOM found", -1, 0, FALSE)>>
                     [] tryBE /\ be.result = SIGNATURE_CHECK_RESULT_NOT_FOUND ->
                          <<Line("No UTF-16 BOM found", -1, 0, FALSE)>>
                     [] OTHER -> <<>>
           /\ retval' = (last.result = SIGNATURE_CHECK_RESULT_FOUND)
           /\ bLittleEndian' =
                IF le.result = SIGNATURE_CHECK_RESULT_FOUND THEN TRUE
                ELSE IF tryBE /\ be.result = SIGNATURE_CHECK_RESULT_FOUND THEN FALSE
                ELSE bLittleEndian
           /\ pc' = IF le.result \in known /\ (tryBE => be.result \in known)
                    THEN "done" ELSE "logic_error"
    /\ called' = "CheckStreamForUTF16BOM"
    /\ UNCHANGED <<bLeadingByteValid, utf8sequenceLength>>
    /\ UNCHANGED <<stream, entryPos, tinyLimit, bDetailed, buf, readCount,
                   bBufferEndCheck, stopPos, ucharPtr, bValidUTF8,
                   b7bitASCIIOnly, maxRead, iterations>>

NextBOM ==
    \/ CheckStreamForUTF8BOM
    \/ CheckStreamForUTF16BOM

SpecBOM == InitBOM /\ [][NextBOM]_vars

(***************************************************************************)
(* The leading-byte decoder on its own: the call of line 286, made with    *)
(* ucharPtr on a readable byte and the two output locals as lines 284-285  *)
(* initialise them (utf8sequenceLength is the size_t conversion of -1000,  *)
(* kept as -1000 here: every path of the decoder overwrites it).  Bytes    *)
(* holds every value a utf8_checking_unit_t can take.                      *)
(***************************************************************************)
Bytes == 0..255

InitDecoder ==
    /\ buf \in {<<b>> : b \in Bytes}
    /\ stream = buf
    /\ pos = 0
    /\ eofbit = FALSE
    /\ failbit = FALSE
    /\ entryPos = 0
    /\ tinyLimit = UTF8_TINY_MODE_SIZE_LIMIT
    /\ bDetailed = UTF8_DETAILED_ERROR_LIST
    /\ called = "UTF8IsValidLeadingByte"
    /\ pc = "decode"
    /\ readCount = 1
    /\ bBufferEndCheck = TRUE
    /\ stopPos = 1
    /\ ucharPtr = 0
    /\ bValidUTF8 = TRUE
    /\ b7bitASCIIOnly = TRUE
    /\ reason = <<>>
    /\ maxRead = -1
    /\ iterations = 0
    /\ retval = FALSE
    /\ bLittleEndian = FALSE
    /\ bLeadingByteValid = FALSE
    /\ utf8sequenceLength = -1000

UTF8IsValidLeadingByteCall ==
    /\ pc = "decode"
    /\ LET d == UTF8IsValidLeadingByte(At(buf, ucharPtr, 0, 0))
       IN  /\ bLeadingByteValid' = d.bValid
           /\ utf8sequenceLength' = d.utf8sequenceLength
    /\ maxRead' = Max(maxRead, ucharPtr)
    /\ pc' = "decoded"
    /\ UNCHANGED <<stream, pos, eofbit, failbit, entryPos, tinyLimit, bDetailed,
                   called, buf, readCount, bBufferEndCheck, stopPos, ucharPtr,
                   bValidUTF8, b7bitASCIIOnly, reason, iterations, retval,
                   bLittleEndian>>

NextDecoder == UTF8IsValidLeadingByteCall

SpecDecoder == InitDecoder /\ [][NextDecoder]_vars

(***************************************************************************)
(* Reference notions the properties are stated with.                       *)
(***************************************************************************)
Sample == SubSeq(buf, 1, readCount)
NoBOMDone == called = "CheckStreamForUTF8NoBOM" /\ pc = "done"

AsciiValid == {9, 10, 13} \cup (32..126)
Continuation == 128..191

\* length of the well-formed unit of the envelope table that starts at
\* index i (1-based) of s, 0 if none does
UnitLen(s, i) ==
    LET n == Len(s) - i + 1
        x(k) == s[i + k]
    IN  IF x(0) \in AsciiValid THEN 1
        ELSE IF n >= 2 /\ x(0) \in 194..223 /\ x(1) \in Continuation THEN 2
        ELSE IF n >= 3 /\ x(2) \in Continuation
                /\ \/ x(0) = 224 /\ x(1) \in 160..191
                   \/ x(0) \in (225..236) \cup {238, 239} /\ x(1) \in Continuation
                   \/ x(0) = 237 /\ x(1) \in 128..159
             THEN 3
        ELSE IF n >= 4 /\ x(2) \in Continuation /\ x(3) \in Continuation
                /\ \/ x(0) = 240 /\ x(1) \in 144..191
                   \/ x(0) \in 241..243 /\ x(1) \in Continuation
                   \/ x(0) = 244 /\ x(1) \in 128..143
             THEN 4
        ELSE 0

RECURSIVE WellFormedFrom(_, _)
WellFormedFrom(s, i) ==
    IF i > Len(s) THEN TRUE
    ELSE IF UnitLen(s, i) = 0 THEN FALSE
    ELSE WellFormedFrom(s, i + UnitLen(s, i))

WellFormed(s) == WellFormedFrom(s, 1)

\* C1: in bounds-checked mode the scan ends with all_valid_utf8 = true
\* exactly when the buffer is a concatenation of well-formed units of the
\* envelope table (so every overlong, surrogate, out-of-range, stray,
\* control or truncated form ends it false).
C1_ValidIffWellFormed ==
    (NoBOMDone /\ bBufferEndCheck) => (bValidUTF8 <=> WellFormed(Sample))

C1_Witness ==
    /\ NoBOMDone /\ bBufferEndCheck /\ bValidUTF8
    /\ Sample = <<240, 144, 128, 128, 65>>

\* C2: CheckUTF8NoBOM returns true exactly when all_valid_utf8 is true and
\* all_ascii_only is false; on a region of ASCII-valid bytes only (the empty
\* one included) both flags end true and the call returns false.
C2_ReturnValue ==
    NoBOMDone =>
        /\ retval <=> (bValidUTF8 /\ ~b7bitASCIIOnly)
        /\ (\A i \in 1..Len(stream) : i > entryPos => stream[i] \in AsciiValid)
              => (bValidUTF8 /\ b7bitASCIIOnly /\ ~retval)

C2_Witness ==
    /\ NoBOMDone /\ ~retval /\ bValidUTF8 /\ b7bitASCIIOnly
    /\ Sample = <<65, 65, 65>>

\* C3 as stated: every valid UTF-8 input with a byte >= 0x80 ends with
\* all_valid_utf8 = true, all_ascii_only = false and the call returning true.
C3_Original ==
    (NoBOMDone /\ WellFormed(Sample) /\ \E i \in 1..readCount : buf[i] >= 128)
        => (bValidUTF8 /\ ~b7bitASCIIOnly /\ retval)

\* C3 amended: every valid UTF-8 input ends with all_valid_utf8 = true, and
\* with all_ascii_only = false and the call returning true when a byte
\* >= 0x80 lies before the stop position (the whole buffer in bounds-checked
\* mode, all but its last 4 bytes in unchecked mode).
C3_ValidNonAscii ==
    (NoBOMDone /\ WellFormed(Sample)) =>
        /\ bValidUTF8
        /\ (\E i \in 1..stopPos : buf[i] >= 128) => (~b7bitASCIIOnly /\ retval)

C3_Witness ==
    /\ NoBOMDone /\ ~bBufferEndCheck /\ retval
    /\ Sample = <<240, 144, 128, 128, 65>>

\* C4: every pass through the scan loop strictly increases the cursor, so a
\* buffer of length L is left after at most L passes, and in bounds-checked
\* mode the cursor never exceeds L.
C4_ForwardProgress ==
    /\ [](iterations <= readCount /\ (bBufferEndCheck => ucharPtr <= readCount))
    /\ [][iterations' = iterations + 1 => ucharPtr' > ucharPtr]_vars

C4_Witness ==
    /\ NoBOMDone /\ ~bValidUTF8
    /\ readCount = UTF8_MAX_CHAR_SIZE /\ iterations = readCount

\* C5: no byte at or past the end of the buffer is ever read, and in
\* unchecked mode the reads stay within 3 bytes after the stop position.
C5_NoReadPastEnd ==
    /\ maxRead < readCount
    /\ ~bBufferEndCheck => maxRead < stopPos + 3

C5_Witness ==
    /\ NoBOMDone /\ bBufferEndCheck /\ ~bValidUTF8
    /\ Sample = <<240, 144, 128>> /\ maxRead = 2
    /\ \E i \in 1..Len(reason) :
          reason[i].cat = "continuation truncated" /\ reason[i].eob

StartsWith(s, signature) ==
    Len(s) >= Len(signature) /\ SubSeq(s, 1, Len(signature)) = signature

\* C6: on a healthy stream at offset 0 CheckUTF8BOM returns true exactly
\* when the stream starts EF BB BF; on true the position is 3, on false it
\* is back at 0 with the error flags clear; no internal error is raised.
C6_UTF8BOMExact ==
    called = "CheckStreamForUTF8BOM" =>
        /\ pc = "done"
        /\ retval <=> StartsWith(stream, <<239, 187, 191>>)
        /\ retval => pos = 3
        /\ ~retval => (pos = 0 /\ ~eofbit /\ ~failbit)

C6_Witness ==
    /\ called = "CheckStreamForUTF8BOM" /\ pc = "done"
    /\ stream = <<239, 187>> /\ ~retval /\ pos = 0

\* C7 as stated: FF FE gives true, little-endian, position 2; FE FF gives
\* true, big-endian, position 2; anything else gives not-found at position
\* 0 with isLittleEndian left at a defined default (false).
C7_Original ==
    called = "CheckStreamForUTF16BOM" =>
        /\ pc = "done"
        /\ StartsWith(stream, <<255, 254>>) => (retval /\ bLittleEndian /\ pos = 2)
        /\ StartsWith(stream, <<254, 255>>) => (retval /\ ~bLittleEndian /\ pos = 2)
        /\ (~StartsWith(stream, <<255, 254>>) /\ ~StartsWith(stream, <<254, 255>>))
              => (~retval /\ pos = 0 /\ bLittleEndian = FALSE)

\* C7 amended: FF FE gives true, little-endian, position 2; FE FF gives
\* true, big-endian, position 2; anything else gives not-found at position
\* 0 with the error flags clear, and isLittleEndian keeps the value the
\* caller's variable held before the call.
C7_UTF16BOM ==
    /\ [](called = "CheckStreamForUTF16BOM" =>
            /\ pc = "done"
            /\ StartsWith(stream, <<255, 254>>)
                  => (retval /\ bLittleEndian /\ pos = 2)
            /\ StartsWith(stream, <<254, 255>>)
                  => (retval /\ ~bLittleEndian /\ pos = 2)
            /\ (~StartsWith(stream, <<255, 254>>)
                   /\ ~StartsWith(stream, <<254, 255>>))
                  => (~retval /\ pos = 0 /\ ~eofbit /\ ~failbit))
    /\ [][(called' = "CheckStreamForUTF16BOM" /\ ~retval')
             => bLittleEndian' = bLittleEndian]_vars

C7_Witness ==
    /\ called = "CheckStreamForUTF16BOM" /\ pc = "done"
    /\ stream = <<0, 0>> /\ ~retval /\ pos = 0 /\ bLittleEndian

\* C8: CheckUTF8NoBOM leaves the read position where it was before the
\* call, with the error flags clear also after a short read, and the region
\* it scans is the stream from that position to its end.
C8_PositionRestored ==
    called = "CheckStreamForUTF8NoBOM" =>
        /\ pos = entryPos
        /\ ~eofbit /\ ~failbit
        /\ Sample = SubSeq(stream, entryPos + 1, Len(stream))

C8_Witness ==
    /\ called = "CheckStreamForUTF8NoBOM"
    /\ entryPos = 1 /\ pos = 1
    /\ readCount >= 1 /\ readCount < Len(buf)

\* the last line of the log after the step
LastLine(log) == log[Len(log)]

\* the k bytes after the lead at index p lie before the stop position and
\* have the continuation shape
ShapeAt(p, n) ==
    /\ p + n <= stopPos
    /\ \A k \in 1..(n - 1) : buf[p + k + 1] \in Continuation

\* C9: a pass that starts at F4, a second byte in 0x90..0xBF and two
\* continuation bytes lowers all_valid_utf8, logs the position under
\* 'out-of-range via 0xF4' and advances the cursor by 4.
C9_OutOfRangeF4 ==
    [][(iterations' = iterations + 1
          /\ ShapeAt(ucharPtr, 4)
          /\ buf[ucharPtr + 1] = 244
          /\ buf[ucharPtr + 2] \in 144..191)
        => /\ ~bValidUTF8'
           /\ ucharPtr' = ucharPtr + 4
           /\ LastLine(reason') =
                 Line("code point out of range (F4)", ucharPtr, 4, FALSE)]_vars

\* C10: a pass that starts at a lead with its continuation bytes in place
\* logs exactly one classifier line: '2-byte overlong' for C0/C1, '3-byte
\* overlong' for E0 80..9F, 'surrogate half' for ED A0..BF, and '4-byte
\* overlong' exactly for F0 80..8F; all_valid_utf8 is false and the cursor
\* advances by the sequence length.
C10_OverlongAndSurrogate ==
    [][iterations' = iterations + 1 =>
        LET p  == ucharPtr
            b0 == buf[p + 1]
            b1 == buf[p + 2]
            Classified(cat, n) ==
                /\ ~bValidUTF8'
                /\ ucharPtr' = p + n
                /\ Len(reason') = Len(reason) + 2
                /\ reason'[Len(reason) + 1].pos = -1
                /\ reason'[Len(reason) + 2] = Line(cat, p, n, FALSE)
        IN  /\ (b0 \in 192..193 /\ ShapeAt(p, 2))
                  => Classified("2-byte overlong", 2)
            /\ (b0 = 224 /\ ShapeAt(p, 3) /\ b1 \in 128..159)
                  => Classified("3-byte overlong", 3)
            /\ (b0 = 237 /\ ShapeAt(p, 3) /\ b1 \in 160..191)
                  => Classified("surrogate half", 3)
            /\ (b0 = 240 /\ ShapeAt(p, 4) /\ b1 \in 128..143)
                  => Classified("4-byte overlong", 4)
            /\ (\E i \in (Len(reason) + 1)..Len(reason') :
                    reason'[i].cat = "4-byte overlong")
                  => (b0 = 240 /\ ShapeAt(p, 4) /\ b1 \in 128..143)]_vars

C10_Witness ==
    /\ NoBOMDone /\ ~bValidUTF8
    /\ Sample = <<237, 160, 128>>
    /\ reason[3] = Line("surrogate half", 0, 3, FALSE)

(***************************************************************************)
(* C11: in a bounds-checked scan b7bitASCIIOnly is lowered at the step     *)
(* that starts on the first byte failing the 1-byte ASCII test, whether or *)
(* not a valid multi-byte sequence starts there: while the loop runs the   *)
(* flag is true exactly when every byte before the cursor is in            *)
(* {0x09, 0x0A, 0x0D} or 0x20..0x7E, and at the end of the scan exactly    *)
(* when every byte of the buffer is.                                       *)
(***************************************************************************)
C11_AsciiOnlyExact ==
    (called = "CheckStreamForUTF8NoBOM" /\ bBufferEndCheck) =>
        /\ pc = "loop" =>
              (b7bitASCIIOnly <=> \A i \in 1..ucharPtr : buf[i] \in AsciiValid)
        /\ pc = "done" =>
              (b7bitASCIIOnly <=> \A i \in 1..readCount : buf[i] \in AsciiValid)

\* a valid 2-byte sequence after an ASCII byte: valid UTF-8, flag lowered
C11_Witness ==
    /\ NoBOMDone
    /\ bBufferEndCheck
    /\ Sample = <<65, 194, 128>>
    /\ bValidUTF8
    /\ ~b7bitASCIIOnly

(***************************************************************************)
(* C12: truncation handling of the continuation verifier.  A scan step     *)
(* is truncated when the byte at the cursor is a valid leading byte whose  *)
(* sequence is longer than what remains before the stop position and the   *)
(* validation step fails there (it always does in bounds-checked mode).    *)
(***************************************************************************)
TruncatedStep ==
    /\ called = "CheckStreamForUTF8NoBOM"
    /\ pc = "loop"
    /\ bDetailed
    /\ ucharPtr < stopPos
    /\ iterations' = iterations + 1
    /\ UTF8IsValidLeadingByte(buf[ucharPtr + 1]).bValid
    /\ UTF8IsValidLeadingByte(buf[ucharPtr + 1]).utf8sequenceLength
           > stopPos - ucharPtr
    /\ (bBufferEndCheck \/ Len(reason') > Len(reason))

TruncationDiagnosed ==
    /\ ~bValidUTF8'
    /\ LastLine(reason') =
           Line("continuation truncated", ucharPtr, stopPos - ucharPtr, TRUE)

\* the positions after the leading byte, before the stop position, that do
\* not hold a continuation byte
NonContinuationAfter(p) ==
    {i \in (p + 1)..(stopPos - 1) : buf[i + 1] \notin Continuation}

\* C12 as stated: every truncated step is classified invalid with the
\* truncation diagnostic and the end-of-buffer marker, and the cursor
\* resumes at the end of the buffer whatever the remaining bytes are.
C12_Original ==
    [][TruncatedStep => (TruncationDiagnosed /\ ucharPtr' = stopPos)]_vars

\* C12: every truncated step is classified invalid with the truncation
\* diagnostic and the end-of-buffer marker; the cursor resumes at the first
\* remaining byte that is not a continuation byte, and at the end of the
\* buffer (ending the scan) only when every remaining byte is one.
C12_Truncation ==
    [][TruncatedStep =>
         /\ TruncationDiagnosed
         /\ ucharPtr' =
               IF NonContinuationAfter(ucharPtr) = {} THEN stopPos
               ELSE CHOOSE i \in NonContinuationAfter(ucharPtr) :
                        \A j \in NonContinuationAfter(ucharPtr) : i <= j]_vars

\* E1 41 at the end of the buffer: truncation is reported at position 0 and
\* the scan goes on at the 0x41
C12_Witness ==
    /\ called = "CheckStreamForUTF8NoBOM"
    /\ pc = "loop"
    /\ bBufferEndCheck
    /\ Sample = <<225, 65>>
    /\ iterations = 1
    /\ ucharPtr = 1
    /\ LastLine(reason) = Line("continuation truncated", 0, 2, TRUE)

(***************************************************************************)
(* C13: verdict monotonicity.  When the scan loop is entered bValidUTF8    *)
(* and b7bitASCIIOnly are both true, and no step of the scan turns a flag  *)
(* that is false back to true, whatever bytes follow.                      *)
(***************************************************************************)
C13_VerdictMonotone ==
    /\ []((called = "CheckStreamForUTF8NoBOM" /\ iterations = 0)
            => (bValidUTF8 /\ b7bitASCIIOnly))
    /\ [][(called = "CheckStreamForUTF8NoBOM")
            => /\ bValidUTF8' => bValidUTF8
               /\ b7bitASCIIOnly' => b7bitASCIIOnly]_vars

\* DEL, then a valid 2-byte sequence: the second step is valid, the verdict
\* stays false
C13_Witness ==
    /\ NoBOMDone
    /\ bBufferEndCheck
    /\ Sample = <<127, 194, 128>>
    /\ iterations = 2
    /\ ucharPtr = 3
    /\ ~bValidUTF8
    /\ ~b7bitASCIIOnly

(***************************************************************************)
(* C14: the leading-byte decoder is total and gives, for each of the 256   *)
(* byte values: 00..7F valid, length 1; 80..BF invalid, assumed length 1;  *)
(* C0..DF valid, length 2; E0..EF valid, length 3; F0..F7 valid, length 4; *)
(* F8..FB invalid, assumed length 5; FC..FD invalid, assumed length 6;     *)
(* FE..FF invalid, assumed length 1.                                       *)
(***************************************************************************)
DecoderTable(b) ==
    CASE b \in 0..127   -> <<TRUE, 1>>
      [] b \in 128..191 -> <<FALSE, 1>>
      [] b \in 192..223 -> <<TRUE, 2>>
      [] b \in 224..239 -> <<TRUE, 3>>
      [] b \in 240..247 -> <<TRUE, 4>>
      [] b \in 248..251 -> <<FALSE, 5>>
      [] b \in 252..253 -> <<FALSE, 6>>
      [] b \in 254..255 -> <<FALSE, 1>>

C14_DecoderTable ==
    (called = "UTF8IsValidLeadingByte") =>
        /\ pc = "decode" => ENABLED UTF8IsValidLeadingByteCall
        /\ pc = "decoded" =>
              <<bLeadingByteValid, utf8sequenceLength>> = DecoderTable(buf[1])

C14_Witness ==
    /\ called = "UTF8IsValidLeadingByte"
    /\ pc = "decoded"
    /\ buf = <<248>>
    /\ ~bLeadingByteValid
    /\ utf8sequenceLength = 5

(***************************************************************************)
(* C15: fast mode and detailed mode are verdict-equivalent.  A scan that   *)
(* has run to its end in one mode has the flags, and the return value,     *)
(* that the scan of the same buffer in the other mode ends with.           *)
(***************************************************************************)
OtherMode(oob) ==
    CheckStreamForUTF8NoBOMInternal(buf, 0, stopPos, bBufferEndCheck,
                                    ~bDetailed, TRUE, TRUE, oob)

C15_ModesVerdictEquivalent ==
    NoBOMDone =>
        \A oob \in OutOfBounds :
            /\ bValidUTF8 = OtherMode(oob).bValidUTF8
            /\ b7bitASCIIOnly = OtherMode(oob).b7bitASCIIOnly
            /\ retval = NoBOMReturnValue(OtherMode(oob).b7bitASCIIOnly,
                                         OtherMode(oob).bValidUTF8)

\* fast mode stops on the DEL; detailed mode goes on over the valid C2 80
C15_Witness ==
    /\ NoBOMDone
    /\ ~bDetailed
    /\ Sample = <<127, 194, 128>>
    /\ iterations = 1
    /\ ucharPtr = 0
    /\ ~bValidUTF8
    /\ ~b7bitASCIIOnly
    /\ OtherMode(0).ucharPtr = 3

====
